---- MODULE Spec2Model ----
(***************************************************************************)
(* Model of voter.py: the upload endpoint, process_pdf_with_google (page   *)
(* loop, size filter, dedup loop, cell loop, export) and the field         *)
(* extractor extract_from_cell_text.                                       *)
(*                                                                         *)
(* A Python str is modelled as a sequence of characters; a character is a  *)
(* one-element TLA+ string for ASCII and "dv_<name>" for a Devanagari code *)
(* point.  The empty str is <<>>.                                          *)
(***************************************************************************)
EXTENDS Integers, Sequences, FiniteSets, TLC

\* ------------------------------------------------------------------------
\* Bounds of the model
\* ------------------------------------------------------------------------
MaxPages == 3
MaxContours == 4
MaxChunks == 3

\* ------------------------------------------------------------------------
\* Program constants
\* ------------------------------------------------------------------------
MinSide == 200
DedupRadius == 15
IdLetters == 3
IdDigits == 7
AgeMaxDigits == 3

\* ------------------------------------------------------------------------
\* Characters and character classes of the regular expressions
\* ------------------------------------------------------------------------
Upper ==
  {"A", "B", "C", "D", "E", "F", "G", "H", "I", "J", "K", "L", "M",
   "N", "O", "P", "Q", "R", "S", "T", "U", "V", "W", "X", "Y", "Z"}

Lower == {"a", "e", "n", "o"}

AsciiDigit == {"0", "1", "2", "3", "4", "5", "6", "7", "8", "9"}

DevanagariDigit == {"dv_digit_four", "dv_digit_five"}

\* \d on a str pattern matches every Unicode decimal digit
UnicodeDigit == AsciiDigit \cup DevanagariDigit

\* \s on a str pattern, and the characters str.strip() removes
Whitespace == {" ", "\t", "\n"}

\* [:\s]
Separator == {":"} \cup Whitespace

DevanagariLetter ==
  {"dv_na", "dv_m_i", "dv_ra", "dv_s_virama", "dv_va", "dv_m_aa", "dv_ca",
   "dv_ka", "dv_ma", "dv_pa", "dv_ta", "dv_a", "dv_ya", "dv_sa",
   "dv_s_anusvara", "dv_kha", "dv_u", "dv_la", "dv_ga", "dv_m_u", "dv_ssa"}

Char == Upper \cup Lower \cup UnicodeDigit \cup Separator \cup DevanagariLetter

\* [^\n]
NotNewline == Char \ {"\n"}

\* ------------------------------------------------------------------------
\* The literal labels of the patterns
\* ------------------------------------------------------------------------
NameLabel ==
  <<"dv_na", "dv_m_i", "dv_ra", "dv_s_virama", "dv_va", "dv_m_aa", "dv_ca",
    "dv_ka", " ", "dv_ka", "dv_m_aa", " ", "dv_na", "dv_m_aa", "dv_ma">>

FatherLabel ==
  <<"dv_pa", "dv_m_i", "dv_ta", "dv_m_aa", " ", "dv_ka", "dv_m_aa", " ",
    "dv_na", "dv_m_aa", "dv_ma">>

HusbandLabel ==
  <<"dv_pa", "dv_ta", "dv_m_i", " ", "dv_ka", "dv_m_aa", " ", "dv_na",
    "dv_m_aa", "dv_ma">>

OtherLabel == <<"dv_a", "dv_na", "dv_s_virama", "dv_ya">>

HouseLabel ==
  <<"dv_ma", "dv_ka", "dv_m_aa", "dv_na", " ", "dv_sa", "dv_s_anusvara",
    "dv_kha", "dv_s_virama", "dv_ya", "dv_m_aa">>

AgeLabel == <<"dv_u", "dv_ma", "dv_s_virama", "dv_ra">>

GenderLabel == <<"dv_la", "dv_m_i", "dv_s_anusvara", "dv_ga">>

\* the alternation (?:FatherLabel|HusbandLabel|OtherLabel), in pattern order
RelativeLabels == <<FatherLabel, HusbandLabel, OtherLabel>>

\* ------------------------------------------------------------------------
\* Regular-expression machinery (re.search: leftmost match, greedy
\* quantifiers with backtracking)
\* ------------------------------------------------------------------------
Min(a, b) == IF a <= b THEN a ELSE b

\* the element of a one-element set; Only({e(x) : x \in {v}}) evaluates v
\* once and then e on its value
Only(S) == CHOOSE x \in S : TRUE

\* the literal lit occurs in s starting at index i
LiteralAt(s, lit, i) ==
  /\ i >= 1
  /\ i + Len(lit) - 1 <= Len(s)
  /\ \A j \in 1..Len(lit) : s[i + j - 1] = lit[j]

\* length of the longest run of characters of class cls in s from index i
RECURSIVE Run(_, _, _)
Run(s, i, cls) ==
  IF i > Len(s) \/ s[i] \notin cls THEN 0 ELSE 1 + Run(s, i + 1, cls)

\* str.strip(): drop leading and trailing whitespace
RECURSIVE LStrip(_)
LStrip(s) ==
  IF s # <<>> /\ Head(s) \in Whitespace
  THEN Only({LStrip(t) : t \in {Tail(s)}})
  ELSE s

RECURSIVE RStrip(_)
RStrip(s) ==
  IF s # <<>> /\ s[Len(s)] \in Whitespace
  THEN Only({RStrip(t) : t \in {SubSeq(s, 1, Len(s) - 1)}})
  ELSE s

\* a faulty variant: the captured group is returned as matched, not stripped
NoStrip(s) == s

Strip(s) == Only({RStrip(t) : t \in {LStrip(s)}})

\* str.replace(" ", "")
ReplaceSpace(s) == SelectSeq(s, LAMBDA c : c # " ")

SetMax(S) == CHOOSE m \in S : \A n \in S : n <= m

SetMin(S) == CHOOSE m \in S : \A n \in S : m <= n

\* a greedy quantifier that can take up to most characters from pos gives
\* them back one by one until a run of at least need characters of class cls
\* starts right after it: the number of characters it keeps, or -1 when the
\* rest of the pattern never matches
Backtrack(s, pos, most, cls, need) ==
  Only({ IF ks = {} THEN -1 ELSE SetMax(ks) :
           ks \in { {k \in 0..most : Run(s, pos + k, cls) >= need} } })

\* [A-Z]{3}\s*\d{7} anchored at i: the index of the last matched character,
\* or 0 when the pattern does not match at i
VoterIdEndAt(s, i) ==
  IF /\ i + IdLetters - 1 <= Len(s)
     /\ \A j \in 0..(IdLetters - 1) : s[i + j] \in Upper
  THEN Only({ IF k = -1 THEN 0 ELSE i + IdLetters + k + IdDigits - 1 :
                k \in { Backtrack(s, i + IdLetters,
                                  Run(s, i + IdLetters, Whitespace),
                                  UnicodeDigit, IdDigits) } })
  ELSE 0

\* re.search(r"[A-Z]{3}\s*\d{7}", text).group(0) of the leftmost match, or
\* <<>> when there is no match
VoterIdGroup(s) ==
  Only({ IF starts = {} THEN <<>>
         ELSE Only({ SubSeq(s, i, VoterIdEndAt(s, i)) : i \in {SetMin(starts)} }) :
           starts \in { {i \in 1..Len(s) : VoterIdEndAt(s, i) # 0} } })

\* LABEL[:\s]*(CLS{1,maxlen}) with the label anchored at i: <<start, end>>
\* of group(1), or <<0, 0>> when the pattern does not match at i
GroupAt(s, lit, i, cls, maxlen) ==
  IF LiteralAt(s, lit, i)
  THEN Only({ IF k = -1 THEN <<0, 0>>
              ELSE << i + Len(lit) + k,
                      i + Len(lit) + k
                        + Min(maxlen, Run(s, i + Len(lit) + k, cls)) - 1 >> :
                k \in { Backtrack(s, i + Len(lit),
                                  Run(s, i + Len(lit), Separator),
                                  cls, 1) } })
  ELSE <<0, 0>>

\* the alternation anchored at i: alternatives are tried in pattern order
RECURSIVE AltGroupAt(_, _, _, _, _)
AltGroupAt(s, lits, i, cls, maxlen) ==
  IF lits = <<>> THEN <<0, 0>>
  ELSE Only({ IF g # <<0, 0>> THEN g
              ELSE AltGroupAt(s, Tail(lits), i, cls, maxlen) :
                g \in {GroupAt(s, Head(lits), i, cls, maxlen)} })

\* group(1) of the leftmost match of the pattern in s, as <<start, end>>, or
\* <<0, 0>> when there is no match
Search(s, lits, cls, maxlen) ==
  Only({ IF starts = {} THEN <<0, 0>>
         ELSE AltGroupAt(s, lits, SetMin(starts), cls, maxlen) :
           starts \in { {i \in 1..Len(s) :
                          AltGroupAt(s, lits, i, cls, maxlen) # <<0, 0>>} } })

\* m.group(1).strip() if m else ""
FieldOf(s, lits, cls, maxlen) ==
  Only({ IF g = <<0, 0>> THEN <<>>
         ELSE Only({Strip(t) : t \in {SubSeq(s, g[1], g[2])}}) :
           g \in {Search(s, lits, cls, maxlen)} })

\* [voter_id, name, relative, house, age, gender]
extract_from_cell_text(text) ==
  << ReplaceSpace(VoterIdGroup(text)),
     FieldOf(text, <<NameLabel>>, NotNewline, Len(text)),
     FieldOf(text, RelativeLabels, NotNewline, Len(text)),
     FieldOf(text, <<HouseLabel>>, NotNewline, Len(text)),
     FieldOf(text, <<AgeLabel>>, AsciiDigit, AgeMaxDigits),
     FieldOf(text, <<GenderLabel>>, NotNewline, Len(text)) >>

\* a faulty variant: "if voter_data:" - a list of six strings is always truthy
ListTruthy(rec) == rec # <<>>

\* any(voter_data)
AnyField(rec) == \E f \in 1..Len(rec) : rec[f] # <<>>

\* ------------------------------------------------------------------------
\* Inputs: bounding rectangles <<x, y, w, h>> cv2.boundingRect can return,
\* the texts and error messages the OCR service can return
\* ------------------------------------------------------------------------
Rects ==
  { <<100, 100, 250, 250>>,    \* a cell
    <<105, 103, 250, 250>>,    \* a second detection of the same cell
    <<115, 100, 201, 201>>,    \* exactly 15 px right of the first
    <<130, 100, 250, 250>>,    \* 30 px right of the first
    <<100, 400, 250, 250>>,    \* a cell far below
    <<400, 100, 200, 250>>,    \* width exactly 200
    <<100, 114, 250, 200>> }   \* height exactly 200

RECURSIVE SeqsUpTo(_, _)
SeqsUpTo(S, n) ==
  IF n = 0 THEN {<<>>}
  ELSE LET shorter == SeqsUpTo(S, n - 1)
       IN  shorter \cup {Append(q, e) : q \in shorter, e \in S}

\* every list of at most MaxContours rectangles, in every order
ContourLists == SeqsUpTo(Rects, MaxContours)

\* the pages of the documents of the whole-document specification
PageLayouts ==
  { <<>>,                                               \* no contour at all
    << <<400, 100, 200, 250>>, <<100, 114, 250, 200>> >>,   \* undersized only
    << <<100, 100, 250, 250>> >>,
    << <<105, 103, 250, 250>>, <<100, 100, 250, 250>> >>,
    << <<100, 400, 250, 250>>, <<105, 103, 250, 250>> >>,
    << <<100, 400, 250, 250>>, <<115, 100, 201, 201>>,
       <<100, 100, 250, 250>> >>,
    << <<105, 103, 250, 250>>, <<130, 100, 250, 250>>,
       <<100, 100, 250, 250>>, <<400, 100, 200, 250>> >> }

IdLine == <<"A", "A", "B", "1", "2", "3", "4", "5", "6", "7">>

JaneDoe == <<"J", "a", "n", "e", " ", "D", "o", "e">>

\* "AAB1234567\n<NameLabel>: Jane Doe\n<AgeLabel>: 45"
ExampleText ==
  IdLine \o <<"\n">> \o NameLabel \o <<":", " ">> \o JaneDoe
         \o <<"\n">> \o AgeLabel \o <<":", " ", "4", "5">>

\* "<AgeLabel>: 45"
AgeText == AgeLabel \o <<":", " ", "4", "5">>

\* "<GenderLabel>: <NameLabel>" (a line that holds two labels)
GenderText == GenderLabel \o <<":", " ">> \o NameLabel

Positions == {<<r[1], r[2]>> : r \in Rects}

\* what is printed on the scanned form at each cell position, as the OCR
\* service reads it: a full form, and a mostly blank one
FullForm ==
  [p \in Positions |->
     CASE p = <<100, 100>> -> ExampleText
       [] p = <<115, 100>> -> AgeText
       [] p = <<100, 400>> -> GenderText
       [] OTHER -> <<>>]

SparseForm ==
  [p \in Positions |->
     CASE p = <<105, 103>> -> ExampleText
       [] p = <<100, 400>> -> AgeText
       [] OTHER -> <<>>]

Forms == {FullForm, SparseForm}

\* response.error.message; "" means no error
OcrErrorMessages == {"", "quota exceeded"}

\* the pieces cell texts are built from in the extraction specification
Chunks ==
  { <<"A", "A", "B">>,
    <<"1", "2", "3", "4", "5", "6", "7">>,
    <<"1", "9", "4", "5">>,
    <<"dv_digit_four", "dv_digit_five">>,
    <<" ">>, <<"\t">>, <<"\n">>, <<":">>,
    JaneDoe,
    NameLabel, FatherLabel, HusbandLabel, OtherLabel,
    HouseLabel, AgeLabel, GenderLabel }

RECURSIVE ChunkTexts(_)
ChunkTexts(n) ==
  IF n = 0 THEN {<<>>}
  ELSE LET shorter == ChunkTexts(n - 1)
       IN  shorter \cup {t \o c : t \in shorter, c \in Chunks}

CellTexts == ChunkTexts(MaxChunks) \cup {ExampleText}

\* ------------------------------------------------------------------------
\* Helpers of process_pdf_with_google
\* ------------------------------------------------------------------------
\* a faulty variant: the size filter keeps a side of exactly 200 (>= for >)
SizeFilterInclusive(rects) ==
  SelectSeq(rects, LAMBDA r : r[3] >= MinSide /\ r[4] >= MinSide)

\* [... for (x, y, w, h) in ... if w > 200 and h > 200]
SizeFilter(rects) ==
  SelectSeq(rects, LAMBDA r : r[3] > MinSide /\ r[4] > MinSide)

\* key=lambda b: (b[1], b[0]) compared as tuples
KeyLess(a, b) == a[2] < b[2] \/ (a[2] = b[2] /\ a[1] < b[1])

\* sorted() is stable: a box goes after every box whose key is not greater
RECURSIVE InsertByKey(_, _)
InsertByKey(srt, b) ==
  IF srt = <<>> THEN <<b>>
  ELSE IF KeyLess(b, Head(srt)) THEN <<b>> \o srt
       ELSE <<Head(srt)>> \o InsertByKey(Tail(srt), b)

RECURSIVE SortInto(_, _)
SortInto(srt, rest) ==
  IF rest = <<>> THEN srt
  ELSE SortInto(InsertByKey(srt, Head(rest)), Tail(rest))

\* a faulty variant: the dedup loop iterates over boxes as detected, unsorted
Unsorted(bs) == bs

sorted(bs) == SortInto(<<>>, bs)

Abs(n) == IF n < 0 THEN -n ELSE n

\* abs(b[0] - ub[0]) < 15 and abs(b[1] - ub[1]) < 15
Near(b, ub) ==
  Abs(b[1] - ub[1]) < DedupRadius /\ Abs(b[2] - ub[2]) < DedupRadius

\* a faulty variant: a box is compared with the most recently accepted box only
AnyNearLast(b, ubs) == ubs # <<>> /\ Near(b, ubs[Len(ubs)])

\* any(... for ub in unique_boxes)
AnyNear(b, ubs) == \E k \in 1..Len(ubs) : Near(b, ubs[k])

NoResponse == [status |-> 0, error |-> "", file |-> <<>>]

\* ------------------------------------------------------------------------
\* State
\* ------------------------------------------------------------------------
VARIABLES
  pc,            \* control location
  total_pages,   \* info['Pages']
  page_number,   \* loop variable of the page loop, 0 before the first page
  contours,      \* bounding rectangles of the contours of the current page
  boxes,         \* the rectangles that passed the size filter
  sorted_boxes,  \* sorted(boxes, key=...) the dedup loop iterates over
  di,            \* number of sorted boxes the dedup loop has consumed
  unique_boxes,  \* the deduplicated boxes
  rejected,      \* the sorted boxes the dedup loop did not append
  ci,            \* number of unique boxes the cell loop has taken
  cell_box,      \* (x, y, w, h) of the cell loop
  cell_text,     \* text returned by ocr_cell_google
  voter_data,    \* fields returned by extract_from_cell_text
  all_voters,    \* the accumulated records
  exc,           \* str(e) of the exception in flight, "" when none
  exported,      \* the record lists written to output_path, oldest first
  response,      \* what upload_file returned
  form,          \* the text the OCR service reads at each cell position
  page_base      \* history: all_voters when the current page began

vars ==
  << pc, total_pages, page_number, contours, boxes, sorted_boxes, di,
     unique_boxes, rejected, ci, cell_box, cell_text, voter_data, all_voters,
     exc, exported, response, form, page_base >>

pageVars == <<contours, boxes, sorted_boxes, di, unique_boxes, rejected>>

cellVars == <<ci, cell_box, cell_text, voter_data>>

Init ==
  /\ pc = "upload"
  /\ total_pages = 0
  /\ page_number = 0
  /\ contours = <<>>
  /\ boxes = <<>>
  /\ sorted_boxes = <<>>
  /\ di = 0
  /\ unique_boxes = <<>>
  /\ rejected = <<>>
  /\ ci = 0
  /\ cell_box = <<>>
  /\ cell_text = <<>>
  /\ voter_data = <<>>
  /\ all_voters = <<>>
  /\ exc = ""
  /\ exported = <<>>
  /\ response = NoResponse
  /\ form \in Forms
  /\ page_base = <<>>

\* ------------------------------------------------------------------------
\* upload_file
\* ------------------------------------------------------------------------
\* "pdf_file" not in request.files
UploadNoFile ==
  /\ pc = "upload"
  /\ pc' = "responded"
  /\ response' = [status |-> 400, error |-> "No file uploaded", file |-> <<>>]
  /\ UNCHANGED <<total_pages, page_number, pageVars, cellVars, all_voters,
                 exc, exported, form, page_base>>

\* the file is saved and process_pdf_with_google is called
UploadFile ==
  /\ pc = "upload"
  /\ pc' = "process"
  /\ UNCHANGED <<total_pages, page_number, pageVars, cellVars, all_voters,
                 exc, exported, response, form, page_base>>

\* ------------------------------------------------------------------------
\* process_pdf_with_google
\* ------------------------------------------------------------------------
\* all_voters = []; total_pages = pdfinfo_from_path(pdf_path)['Pages']
BeginProcess ==
  /\ pc = "process"
  /\ \E pages \in 0..MaxPages : total_pages' = pages
  /\ all_voters' = <<>>
  /\ page_number' = 0
  /\ pc' = "page_loop"
  /\ page_base' = <<>>
  /\ UNCHANGED <<pageVars, cellVars, exc, exported, response, form>>

\* pdfinfo_from_path raises on an unreadable file
PdfInfoFails ==
  /\ pc = "process"
  /\ exc' = "Unable to get page count"
  /\ pc' = "except"
  /\ UNCHANGED <<total_pages, page_number, pageVars, cellVars, all_voters,
                 exported, response, form, page_base>>

\* a faulty variant: all_voters = [] sits inside the page loop
FindCellsResetting(lists) ==
  /\ pc = "page_loop"
  /\ page_number < total_pages
  /\ page_number' = page_number + 1
  /\ \E rects \in lists :
       /\ contours' = rects
       /\ boxes' = SizeFilter(rects)
       /\ sorted_boxes' = sorted(SizeFilter(rects))
       /\ pc' = IF SizeFilter(rects) = <<>> THEN "cell_loop" ELSE "dedup"
  /\ di' = 0
  /\ unique_boxes' = <<>>
  /\ rejected' = <<>>
  /\ ci' = 0
  /\ page_base' = all_voters
  /\ all_voters' = <<>>
  /\ UNCHANGED <<total_pages, cell_box, cell_text, voter_data,
                 exc, exported, response, form>>

\* one turn of the page loop up to the dedup loop: contours, size filter,
\* sort; the page's contours are one of lists
FindCells(lists) ==
  /\ pc = "page_loop"
  /\ page_number < total_pages
  /\ page_number' = page_number + 1
  /\ \E rects \in lists :
       /\ contours' = rects
       /\ boxes' = SizeFilter(rects)
       /\ sorted_boxes' = sorted(SizeFilter(rects))
       /\ pc' = IF SizeFilter(rects) = <<>> THEN "cell_loop" ELSE "dedup"
  /\ di' = 0
  /\ unique_boxes' = <<>>
  /\ rejected' = <<>>
  /\ ci' = 0
  /\ page_base' = all_voters
  /\ UNCHANGED <<total_pages, cell_box, cell_text, voter_data, all_voters,
                 exc, exported, response, form>>

\* a page of a document
StartPage == FindCells(PageLayouts)

\* a page with any contours
StartAnyPage == FindCells(ContourLists)

\* one iteration of the dedup loop
DedupStep ==
  /\ pc = "dedup"
  /\ di < Len(sorted_boxes)
  /\ LET b == sorted_boxes[di + 1]
     IN  IF ~AnyNear(b, unique_boxes)
         THEN /\ unique_boxes' = Append(unique_boxes, b)
              /\ rejected' = rejected
         ELSE /\ unique_boxes' = unique_boxes
              /\ rejected' = Append(rejected, b)
  /\ di' = di + 1
  /\ pc' = IF di + 1 = Len(sorted_boxes) THEN "cell_loop" ELSE "dedup"
  /\ UNCHANGED <<total_pages, page_number, contours, boxes, sorted_boxes,
                 cellVars, all_voters, exc, exported, response, form, page_base>>

\* the cell loop takes the next box, crops it and calls ocr_cell_google
OcrCell ==
  /\ pc = "cell_loop"
  /\ ci < Len(unique_boxes)
  /\ ci' = ci + 1
  /\ cell_box' = unique_boxes[ci + 1]
  /\ \E msg \in OcrErrorMessages :
       IF msg # ""
       THEN \* raise Exception(f"OCR Error: {response.error.message}")
            /\ exc' = "OCR Error: quota exceeded"
            /\ pc' = "except"
            /\ cell_text' = cell_text
       ELSE \* return response.full_text_annotation.text
            /\ cell_text' = form[<<unique_boxes[ci + 1][1],
                                   unique_boxes[ci + 1][2]>>]
            /\ pc' = "extract"
            /\ exc' = exc
  /\ UNCHANGED <<total_pages, page_number, pageVars, voter_data, all_voters,
                 exported, response, form, page_base>>

\* voter_data = extract_from_cell_text(cell_text)
ExtractFields ==
  /\ pc = "extract"
  /\ voter_data' = extract_from_cell_text(cell_text)
  /\ pc' = "append"
  /\ UNCHANGED <<total_pages, page_number, pageVars, ci, cell_box, cell_text,
                 all_voters, exc, exported, response, form, page_base>>

\* if any(voter_data): all_voters.append(voter_data); del ...
AppendRecord ==
  /\ pc = "append"
  /\ all_voters' = IF AnyField(voter_data)
                   THEN Append(all_voters, voter_data)
                   ELSE all_voters
  /\ cell_text' = <<>>
  /\ voter_data' = <<>>
  /\ pc' = "cell_loop"
  /\ UNCHANGED <<total_pages, page_number, pageVars, ci, cell_box, exc,
                 exported, response, form, page_base>>

\* a faulty variant: a page without cells is reported as an error
EndPageRaisesOnEmpty ==
  /\ pc = "cell_loop"
  /\ ci = Len(unique_boxes)
  /\ contours' = <<>>
  /\ boxes' = <<>>
  /\ sorted_boxes' = <<>>
  /\ unique_boxes' = <<>>
  /\ rejected' = <<>>
  /\ di' = 0
  /\ ci' = 0
  /\ cell_box' = <<>>
  /\ IF unique_boxes = <<>>
     THEN exc' = "No cells detected" /\ pc' = "except"
     ELSE exc' = exc /\ pc' = "page_loop"
  /\ UNCHANGED <<total_pages, page_number, cell_text, voter_data, all_voters,
                 exported, response, form, page_base>>

\* the cell loop is exhausted: del img, ..., boxes, unique_boxes, ...
EndPage ==
  /\ pc = "cell_loop"
  /\ ci = Len(unique_boxes)
  /\ contours' = <<>>
  /\ boxes' = <<>>
  /\ sorted_boxes' = <<>>
  /\ unique_boxes' = <<>>
  /\ rejected' = <<>>
  /\ di' = 0
  /\ ci' = 0
  /\ cell_box' = <<>>
  /\ pc' = "page_loop"
  /\ UNCHANGED <<total_pages, page_number, cell_text, voter_data, all_voters,
                 exc, exported, response, form, page_base>>

\* a faulty variant: the page loop stops one page early (range(1, total_pages))
ExportEarly ==
  /\ pc = "page_loop"
  /\ page_number >= total_pages - 1
  /\ exported' = Append(exported, all_voters)
  /\ pc' = "send"
  /\ UNCHANGED <<total_pages, page_number, pageVars, cellVars, all_voters,
                 exc, response, form, page_base>>

\* the page loop is exhausted: the DataFrame is written to save_path
Export ==
  /\ pc = "page_loop"
  /\ page_number >= total_pages
  /\ exported' = Append(exported, all_voters)
  /\ pc' = "send"
  /\ UNCHANGED <<total_pages, page_number, pageVars, cellVars, all_voters,
                 exc, response, form, page_base>>

\* ------------------------------------------------------------------------
\* upload_file, after process_pdf_with_google
\* ------------------------------------------------------------------------
\* return send_file(output_path, ...)
SendFile ==
  /\ pc = "send"
  /\ response' = [status |-> 200, error |-> "",
                  file |-> exported[Len(exported)]]
  /\ pc' = "responded"
  /\ UNCHANGED <<total_pages, page_number, pageVars, cellVars, all_voters,
                 exc, exported, form, page_base>>

\* a faulty variant: the exception is swallowed and the output file is sent
HandleExceptionSendFile ==
  /\ pc = "except"
  /\ response' = [status |-> 200, error |-> "", file |-> <<>>]
  /\ pc' = "responded"
  /\ UNCHANGED <<total_pages, page_number, pageVars, cellVars, all_voters,
                 exc, exported, form, page_base>>

\* except Exception as e: return {"error": str(e)}, 500
HandleException ==
  /\ pc = "except"
  /\ response' = [status |-> 500, error |-> exc, file |-> <<>>]
  /\ pc' = "responded"
  /\ UNCHANGED <<total_pages, page_number, pageVars, cellVars, all_voters,
                 exc, exported, form, page_base>>

Next ==
  \/ UploadNoFile
  \/ UploadFile
  \/ BeginProcess
  \/ PdfInfoFails
  \/ StartPage
  \/ DedupStep
  \/ OcrCell
  \/ ExtractFields
  \/ AppendRecord
  \/ EndPage
  \/ Export
  \/ SendFile
  \/ HandleException

Spec == Init /\ [][Next]_vars

\* the interpreter keeps running the request until it has responded
FairSpec == Spec /\ WF_vars(Next)

\* ------------------------------------------------------------------------
\* One page on its own: process_pdf_with_google stands at the page loop of a
\* one-page document, and the page can have any of the bounded contour lists
\* ------------------------------------------------------------------------
InitPage ==
  /\ pc = "page_loop"
  /\ total_pages = 1
  /\ page_number = 0
  /\ contours = <<>>
  /\ boxes = <<>>
  /\ sorted_boxes = <<>>
  /\ di = 0
  /\ unique_boxes = <<>>
  /\ rejected = <<>>
  /\ ci = 0
  /\ cell_box = <<>>
  /\ cell_text = <<>>
  /\ voter_data = <<>>
  /\ all_voters = <<>>
  /\ exc = ""
  /\ exported = <<>>
  /\ response = NoResponse
  /\ form \in Forms
  /\ page_base = <<>>

NextPage ==
  \/ StartAnyPage
  \/ DedupStep
  \/ OcrCell
  \/ ExtractFields
  \/ AppendRecord
  \/ EndPage

PageSpec == InitPage /\ [][NextPage]_vars

\* ------------------------------------------------------------------------
\* The field extractor on its own: the cell loop stands after an OCR call
\* that returned any of the bounded cell texts
\* ------------------------------------------------------------------------
InitExtract ==
  /\ pc = "extract"
  /\ total_pages = 1
  /\ page_number = 1
  /\ contours = << <<100, 100, 250, 250>> >>
  /\ boxes = contours
  /\ sorted_boxes = contours
  /\ di = 1
  /\ unique_boxes = contours
  /\ rejected = <<>>
  /\ ci = 1
  /\ cell_box = <<100, 100, 250, 250>>
  /\ cell_text \in CellTexts
  /\ voter_data = <<>>
  /\ all_voters = <<>>
  /\ exc = ""
  /\ exported = <<>>
  /\ response = NoResponse
  /\ form = FullForm
  /\ page_base = <<>>

NextExtract == ExtractFields

SpecExtract == InitExtract /\ [][NextExtract]_vars

\* ========================================================================
\* Properties
\* ========================================================================
\* the position <<x, y>> of a box
PosOf(b) == <<b[1], b[2]>>

\* two boxes closer than 15 pixels in x and in y
TooClose(a, b) ==
  /\ a[1] - b[1] < 15 /\ b[1] - a[1] < 15
  /\ a[2] - b[2] < 15 /\ b[2] - a[2] < 15

\* a precedes-or-equals b in (y ascending, then x ascending) order
YXOrdered(a, b) == a[2] < b[2] \/ (a[2] = b[2] /\ a[1] <= b[1])

EmptyRecord == << <<>>, <<>>, <<>>, <<>>, <<>>, <<>> >>

\* the record the extractor gives for the text at each position of a form
FormRecords ==
  [f \in Forms |-> [p \in Positions |-> extract_from_cell_text(f[p])]]

\* the non-empty records of a sequence of boxes, in that order
RECURSIVE RecordsOf(_, _)
RecordsOf(f, bs) ==
  IF bs = <<>> THEN <<>>
  ELSE LET rec == FormRecords[f][PosOf(Head(bs))]
       IN  (IF rec = EmptyRecord THEN <<>> ELSE <<rec>>)
             \o RecordsOf(f, Tail(bs))

InPage == pc \in {"dedup", "cell_loop", "extract", "append"}

\* the number of cells of the current page whose loop body has finished
CellsDone == IF pc \in {"extract", "append"} THEN ci - 1 ELSE ci

OcrFailed == exc = "OCR Error: quota exceeded"

\* ------------------------------------------------------------------------
\* C1: after every iteration of the dedup loop, no two distinct entries of
\* unique_boxes are closer than 15 pixels in both x and y.
\* ------------------------------------------------------------------------
C1_DedupSeparated ==
  \A i, j \in 1..Len(unique_boxes) :
    i # j => ~TooClose(unique_boxes[i], unique_boxes[j])

\* the loop has rejected a near duplicate, accepted two boxes and goes on
C1_Witness ==
  /\ pc = "dedup"
  /\ Len(unique_boxes) = 2
  /\ rejected # <<>>

\* ------------------------------------------------------------------------
\* C2: all_voters (and what is exported and sent) never holds a record whose
\* six fields are all empty, and a cell whose fields are all empty leaves
\* all_voters unchanged.
\* ------------------------------------------------------------------------
NoEmptyRecordIn(recs) == \A i \in 1..Len(recs) : recs[i] # EmptyRecord

C2_NoEmptyRecord ==
  /\ [](/\ NoEmptyRecordIn(all_voters)
        /\ \A k \in 1..Len(exported) : NoEmptyRecordIn(exported[k])
        /\ NoEmptyRecordIn(response.file))
  /\ [][(pc = "append" /\ voter_data = EmptyRecord)
          => all_voters' = all_voters]_vars

\* a blank cell has just been discarded while records were already held
C2_Witness ==
  /\ pc = "cell_loop"
  /\ ci >= 1
  /\ form[PosOf(cell_box)] = <<>>
  /\ all_voters # <<>>
  /\ page_number >= 2

\* ------------------------------------------------------------------------
\* C3: without an OCR failure, all_voters is at every moment the records of
\* the earlier pages followed by the non-empty records of the cells of the
\* current page finished so far, the cells being taken in (y, x) ascending
\* order; pages only hand all_voters on unchanged, and the file sent to the
\* client is exactly all_voters, written once.
\* ------------------------------------------------------------------------
C3_DocumentResult ==
  /\ []((InPage /\ exc = "") =>
          /\ all_voters =
               page_base \o RecordsOf(form, SubSeq(unique_boxes, 1, CellsDone))
          /\ \A i, j \in 1..Len(unique_boxes) :
               i < j => YXOrdered(unique_boxes[i], unique_boxes[j]))
  /\ []((pc = "append") => voter_data = FormRecords[form][PosOf(cell_box)])
  /\ []((response.status = 200) =>
          /\ exported = <<all_voters>>
          /\ response.file = all_voters)
  /\ [][(pc = "cell_loop" /\ pc' = "page_loop") =>
          (ci = Len(unique_boxes) /\ all_voters' = all_voters)]_vars
  /\ [][(pc \in {"page_loop", "send"}) => all_voters' = all_voters]_vars

\* two pages, three records from page 1, none from page 2, file delivered
C3_Witness ==
  /\ response.status = 200
  /\ total_pages = 2
  /\ Len(response.file) = 3
  /\ page_base = response.file

\* ------------------------------------------------------------------------
\* C4: once the OCR service has reported an error, no further cell or page
\* is processed, nothing is ever exported, and the endpoint answers 500 with
\* the error message and no file.
\* ------------------------------------------------------------------------
C4_OcrErrorAborts ==
  /\ [](OcrFailed =>
          /\ pc \in {"except", "responded"}
          /\ exported = <<>>
          /\ response.status \in {0, 500}
          /\ (pc = "responded" =>
                response = [status |-> 500, error |-> exc, file |-> <<>>]))
  /\ [][OcrFailed =>
          /\ OcrFailed'
          /\ all_voters' = all_voters
          /\ ci' = ci
          /\ page_number' = page_number
          /\ cell_text' = cell_text
          /\ exported' = exported]_vars
  /\ (OcrFailed ~> (response.status = 500))

\* the service failed on a later page after records had been accumulated
C4_Witness ==
  /\ response.status = 500
  /\ response.error = "OCR Error: quota exceeded"
  /\ all_voters # <<>>
  /\ page_number >= 2

\* ------------------------------------------------------------------------
\* C5: every box that passed the size filter - the boxes, the sorted boxes,
\* the deduplicated boxes and the box being cropped - is wider than 200 and
\* taller than 200; a contour of width or height exactly 200 is not among
\* them, and every contour wider and taller than 200 is.
\* ------------------------------------------------------------------------
BigEnough(b) == b[3] > 200 /\ b[4] > 200

C5_SizeFilter ==
  /\ \A i \in 1..Len(boxes) : BigEnough(boxes[i])
  /\ \A i \in 1..Len(sorted_boxes) : BigEnough(sorted_boxes[i])
  /\ \A i \in 1..Len(unique_boxes) : BigEnough(unique_boxes[i])
  /\ cell_box # <<>> => BigEnough(cell_box)
  /\ \A i \in 1..Len(contours) :
       (contours[i][3] = 200 \/ contours[i][4] = 200)
         => \A k \in 1..Len(boxes) : boxes[k] # contours[i]
  /\ \A i \in 1..Len(contours) :
       BigEnough(contours[i])
         => \E k \in 1..Len(boxes) : boxes[k] = contours[i]

\* a cell is being sent to OCR on a page that also had a 200-wide and a
\* 200-high contour
C5_Witness ==
  /\ pc = "extract"
  /\ \E i \in 1..Len(contours) : contours[i][3] = 200
  /\ \E i \in 1..Len(contours) : contours[i][4] = 200

\* ------------------------------------------------------------------------
\* C6: a page on which no box passes the size filter makes no OCR call,
\* appends nothing and raises nothing; the page loop goes on to the next page
\* or, after the last page, to the export.
\* ------------------------------------------------------------------------
EmptyPage == pc = "cell_loop" /\ boxes = <<>>

C6_EmptyPageContinues ==
  /\ [](EmptyPage =>
          /\ unique_boxes = <<>>
          /\ ci = 0
          /\ exc = ""
          /\ all_voters = page_base)
  /\ [][EmptyPage =>
          /\ pc' = "page_loop"
          /\ all_voters' = all_voters
          /\ exc' = ""
          /\ ci' = 0
          /\ page_number' = page_number]_vars
  /\ \A n \in 1..(MaxPages + 1) :
       (EmptyPage /\ page_number = n /\ n < total_pages)
          ~> (page_number = n + 1)
  /\ (EmptyPage /\ page_number = total_pages) ~> (pc = "send")
  /\ (EmptyPage ~> (pc = "send" \/ exc # ""))

\* an empty page in the middle of a document that already yielded records
C6_Witness ==
  /\ EmptyPage
  /\ page_number >= 2
  /\ page_number < total_pages
  /\ all_voters # <<>>
  /\ contours # <<>>

\* ------------------------------------------------------------------------
\* C9: pages are taken one by one in ascending order from 1 to total_pages,
\* the export happens at most once and only after the last page (also for
\* zero pages), and a run in which nothing fails ends with the file sent.
\* ------------------------------------------------------------------------
Failed == exc # "" \/ response.status = 400

Done == response.status = 200 /\ Len(exported) = 1

C9_StateMachine ==
  /\ [](/\ page_number <= total_pages
        /\ Len(exported) <= 1
        /\ (InPage => page_number >= 1)
        /\ (exported # <<>> =>
              (page_number = total_pages /\ pc \in {"send", "responded"}))
        /\ (pc = "responded" => (Done \/ Failed)))
  /\ [][\/ page_number' = page_number
        \/ /\ page_number' = page_number + 1
           /\ pc = "page_loop"
           /\ pc' \in {"dedup", "cell_loop"}]_vars
  /\ [][exported' # exported =>
          (pc = "page_loop" /\ page_number = total_pages /\ pc' = "send")]_vars
  /\ <>(Done \/ Failed)

\* a document of several pages went through every page and was sent
C9_Witness ==
  /\ Done
  /\ total_pages >= 2
  /\ page_number = total_pages

\* ------------------------------------------------------------------------
\* C10: the dedup loop runs over the boxes in (y, x) ascending order; the
\* first box is always accepted; every rejected box lies closer than 15
\* pixels in x and y to an accepted box; every box consumed is either
\* accepted or rejected; of (100,100,250,250) and (105,103,250,250) only the
\* former is kept.
\* ------------------------------------------------------------------------
C10_GreedySuppression ==
  /\ \A i, j \in 1..Len(sorted_boxes) :
       i < j => YXOrdered(sorted_boxes[i], sorted_boxes[j])
  /\ Len(sorted_boxes) = Len(boxes)
  /\ \A r \in Rects :
       Cardinality({i \in 1..Len(boxes) : boxes[i] = r})
         = Cardinality({i \in 1..Len(sorted_boxes) : sorted_boxes[i] = r})
  /\ di >= 1 => (unique_boxes # <<>> /\ unique_boxes[1] = sorted_boxes[1])
  /\ Len(unique_boxes) + Len(rejected) = di
  /\ \A i \in 1..Len(rejected) :
       \E k \in 1..Len(unique_boxes) : TooClose(rejected[i], unique_boxes[k])
  /\ (/\ pc = "cell_loop"
      /\ contours \in { << <<100, 100, 250, 250>>, <<105, 103, 250, 250>> >>,
                        << <<105, 103, 250, 250>>, <<100, 100, 250, 250>> >> })
       => unique_boxes = << <<100, 100, 250, 250>> >>

\* the two overlapping boxes, detected in reverse order, have been deduped
C10_Witness ==
  /\ pc = "cell_loop"
  /\ contours = << <<105, 103, 250, 250>>, <<100, 100, 250, 250>> >>
  /\ unique_boxes = << <<100, 100, 250, 250>> >>
  /\ rejected = << <<105, 103, 250, 250>> >>

\* ------------------------------------------------------------------------
\* Field extraction, stated without the matching machinery
\* ------------------------------------------------------------------------
\* the literal lit stands in text at index i
OccursAt(text, lit, i) ==
  /\ i >= 1
  /\ i + Len(lit) - 1 <= Len(text)
  /\ SubSeq(text, i, i + Len(lit) - 1) = lit

\* <<i, pos>>: one of the labels stands at i and ends right before pos
Occurrences(text, labels) ==
  { <<i, i + Len(l)>> : i \in 1..Len(text), l \in labels } \cap
  { o \in (1..Len(text)) \X (1..(Len(text) + 1)) :
      \E l \in labels : OccursAt(text, l, o[1]) /\ o[2] = o[1] + Len(l) }

\* the leftmost occurrence
FirstOccurrence(text, labels) ==
  CHOOSE o \in Occurrences(text, labels) :
    \A other \in Occurrences(text, labels) : o[1] <= other[1]

\* the index of the last character of the line that index q is on
LineEnd(text, q) ==
  CHOOSE e \in q..Len(text) :
    /\ \A j \in q..e : text[j] # "\n"
    /\ (e = Len(text) \/ text[e + 1] = "\n")

\* text from q to the end of its line without trailing whitespace, where
\* text[q] is not whitespace
LineFrom(text, q) ==
  LET last == CHOOSE e \in q..LineEnd(text, q) :
                /\ text[e] \notin {" ", "\t", "\n"}
                /\ \A j \in (e + 1)..LineEnd(text, q) :
                     text[j] \in {" ", "\t", "\n"}
  IN  SubSeq(text, q, last)

\* the claim as it was made: the rest of the label's own line, without the
\* colons and blanks that follow the label and without trailing whitespace
SameLineValue(text, labels) ==
  IF Occurrences(text, labels) = {} THEN <<>>
  ELSE LET pos == FirstOccurrence(text, labels)[2]
           vs  == {q \in pos..Len(text) :
                     /\ text[q] \notin {":", " ", "\t", "\n"}
                     /\ \A j \in pos..(q - 1) : text[j] \in {":", " ", "\t"}}
       IN  IF vs = {} THEN <<>>
           ELSE LineFrom(text, CHOOSE q \in vs : TRUE)

\* what the four text patterns give: the text from the first character after
\* the label that is neither a colon nor whitespace - line breaks included -
\* to the end of that character's line, without trailing whitespace; when
\* only colons and whitespace follow the label, ":" if the last of them
\* other than line breaks is a colon, and "" otherwise
TextFieldValue(text, labels) ==
  IF Occurrences(text, labels) = {} THEN <<>>
  ELSE LET pos == FirstOccurrence(text, labels)[2]
           vs  == {q \in pos..Len(text) : text[q] \notin {":", " ", "\t", "\n"}}
           ns  == {q \in pos..Len(text) : text[q] # "\n"}
       IN  IF vs # {}
           THEN LineFrom(text, CHOOSE q \in vs : \A r \in vs : q <= r)
           ELSE IF ns # {} /\ text[CHOOSE q \in ns : \A r \in ns : r <= q] = ":"
                THEN <<":">>
                ELSE <<>>

\* what the age pattern gives: the first one to three ASCII digits that
\* follow, after colons and whitespace only, the leftmost age label that is
\* followed by a digit in this way
AgeValue(text) ==
  LET digitAfter(o) ==
        {q \in o[2]..Len(text) :
           /\ text[q] \in {"0", "1", "2", "3", "4", "5", "6", "7", "8", "9"}
           /\ \A j \in o[2]..(q - 1) : text[j] \in {":", " ", "\t", "\n"}}
      good == {o \in Occurrences(text, {AgeLabel}) : digitAfter(o) # {}}
  IN  IF good = {} THEN <<>>
      ELSE LET o == CHOOSE g \in good : \A h \in good : g[1] <= h[1]
               q == CHOOSE d \in digitAfter(o) : \A e \in digitAfter(o) : d <= e
               n == CHOOSE m \in 1..3 :
                      /\ \A j \in q..(q + m - 1) :
                           j <= Len(text) /\
                           text[j] \in {"0", "1", "2", "3", "4", "5", "6", "7",
                                        "8", "9"}
                      /\ \/ m = 3
                         \/ q + m > Len(text)
                         \/ text[q + m] \notin {"0", "1", "2", "3", "4", "5",
                                                "6", "7", "8", "9"}
           IN  SubSeq(text, q, q + n - 1)

ExampleRecord ==
  << IdLine, JaneDoe, <<>>, <<>>, <<"4", "5">>, <<>> >>

Extracted == pc = "append"

\* ------------------------------------------------------------------------
\* C7 as claimed: every labelled field is "" when its label is absent and
\* otherwise the rest of the label's own line, trimmed; the example text
\* gives ("AAB1234567", "Jane Doe", "", "", "45", "").
\* ------------------------------------------------------------------------
C7_Orig ==
  Extracted =>
    /\ cell_text = ExampleText => voter_data = ExampleRecord
    /\ voter_data[2] = SameLineValue(cell_text, {NameLabel})
    /\ voter_data[3] =
         SameLineValue(cell_text, {FatherLabel, HusbandLabel, OtherLabel})
    /\ voter_data[4] = SameLineValue(cell_text, {HouseLabel})
    /\ voter_data[5] = SameLineValue(cell_text, {AgeLabel})
    /\ voter_data[6] = SameLineValue(cell_text, {GenderLabel})

\* ------------------------------------------------------------------------
\* C7 amended: every labelled field is "" when its label is absent; a text
\* field is the text from the first character after its label that is
\* neither colon nor whitespace, to the end of the line that character is on
\* (the label's own line or a later one), without trailing whitespace, and
\* ":" or "" when only colons and whitespace follow; the age is the first one
\* to three ASCII digits after the age label, colons and whitespace; the
\* example text gives ("AAB1234567", "Jane Doe", "", "", "45", "").
\* ------------------------------------------------------------------------
C7_SixSearches ==
  Extracted =>
    /\ cell_text = ExampleText => voter_data = ExampleRecord
    /\ voter_data[2] = TextFieldValue(cell_text, {NameLabel})
    /\ voter_data[3] =
         TextFieldValue(cell_text, {FatherLabel, HusbandLabel, OtherLabel})
    /\ voter_data[4] = TextFieldValue(cell_text, {HouseLabel})
    /\ voter_data[5] = AgeValue(cell_text)
    /\ voter_data[6] = TextFieldValue(cell_text, {GenderLabel})

\* the example text has been extracted
C7_Witness ==
  /\ Extracted
  /\ cell_text = ExampleText
  /\ voter_data = ExampleRecord

\* ------------------------------------------------------------------------
\* C8: the VoterID is empty or exactly 3 uppercase letters followed by 7
\* digits, with no whitespace character in it, and it is not empty when the
\* text holds 3 uppercase letters, optional whitespace and 7 digits.
\* ------------------------------------------------------------------------
HasVoterId(text) ==
  \E i \in 1..Len(text), k \in 0..Len(text) :
    /\ i + 2 + k + 7 <= Len(text)
    /\ \A j \in i..(i + 2) : text[j] \in Upper
    /\ \A j \in (i + 3)..(i + 2 + k) : text[j] \in {" ", "\t", "\n"}
    /\ \A j \in (i + 3 + k)..(i + 2 + k + 7) : text[j] \in UnicodeDigit

C8_Orig ==
  Extracted =>
    /\ \/ voter_data[1] = <<>>
       \/ /\ Len(voter_data[1]) = 10
          /\ \A j \in 1..3 : voter_data[1][j] \in Upper
          /\ \A j \in 4..10 : voter_data[1][j] \in UnicodeDigit
    /\ HasVoterId(cell_text) => voter_data[1] # <<>>

====
